---- MODULE Spec2Model ----
(***************************************************************************)
(* Model of src/ytsum.py: a sequential script that parses a YouTube URL,   *)
(* acquires a caption transcript (with language fallback and translation), *)
(* asks a generative model for notes and writes the result files.          *)
(*                                                                         *)
(* Python strings are sequences of one-character strings, so that          *)
(* re.search, str.split, str.replace and str.strip are computed character  *)
(* by character.  The external collaborators (caption service, generative  *)
(* model, filesystem) answer nondeterministically: each call either raises *)
(* or returns a value drawn from a small set.                              *)
(***************************************************************************)
EXTENDS Naturals, Sequences, FiniteSets, TLC

VARIABLES
    pc,                 \* position of the run
    url,                \* process_youtube_video: argument
    video_id,           \* process_youtube_video: local (optional string)
    transcript,         \* process_youtube_video: local (optional string)
    language,           \* process_youtube_video: local
    notes_content,      \* process_youtube_video: local (optional string)
    track_list,         \* get_transcript: local `transcript` (the enumerated tracks)
    transcript_list,    \* get_transcript: local (optional list of caption lines)
    detected_language,  \* get_transcript: local
    text_transcript,    \* get_transcript: local
    content,            \* save_to_file: argument
    filename,           \* save_to_file: argument (the stem)
    parts,              \* save_to_file: local
    files,              \* the filesystem: file name -> content
    trace,              \* every collaborator call, file write and printed message, in order
    fetched             \* indices of the enumerated tracks whose fetch() was called

vars == <<pc, url, video_id, transcript, language, notes_content, track_list,
          transcript_list, detected_language, text_transcript, content, filename,
          parts, files, trace, fetched>>

-----------------------------------------------------------------------------
(* Bounds of the model. *)

MaxUrlPieces == 3
MaxContentPieces == 4
MaxTracks == 3

-----------------------------------------------------------------------------
(* Python values. *)

\* Python's None for an optional string, kept apart from the empty string.
None == [some |-> FALSE, v |-> <<>>]
Some(x) == [some |-> TRUE, v |-> x]

\* Python truthiness of an optional string: None and "" are both falsy.
Truthy(o) == o.some /\ o.v # <<>>

\* The language slot of the (None, None) sentinel.
NoLanguage == "<None>"

\* A local that has not been assigned yet.
Unbound == [bound |-> FALSE, v |-> <<>>]
Bound(x) == [bound |-> TRUE, v |-> x]

RECURSIVE Concat(_)
Concat(ss) == IF ss = <<>> THEN <<>> ELSE Head(ss) \o Concat(Tail(ss))

\* All sequences over S of length at most n.
SeqsUpTo(S, n) == UNION {[1..k -> S] : k \in 0..n}

Event(e, a) == [ev |-> e, arg |-> a]

-----------------------------------------------------------------------------
(* extract_video_id *)

IdLen == 11

Lower == {"a","b","c","d","e","f","g","h","i","j","k","l","m",
          "n","o","p","q","r","s","t","u","v","w","x","y","z"}
Upper == {"A","B","C","D","E","F","G","H","I","J","K","L","M",
          "N","O","P","Q","R","S","T","U","V","W","X","Y","Z"}
Digits == {"0","1","2","3","4","5","6","7","8","9"}

\* The character class [a-zA-Z0-9_-].
IdChars == Lower \cup Upper \cup Digits \cup {"_", "-"}

WATCH_V == <<"y","o","u","t","u","b","e",".","c","o","m","/","w","a","t","c","h","?","v","=">>
YOUTU_BE == <<"y","o","u","t","u",".","b","e","/">>
EMBED == <<"y","o","u","t","u","b","e",".","c","o","m","/","e","m","b","e","d","/">>
WATCH_Q == <<"y","o","u","t","u","b","e",".","c","o","m","/","w","a","t","c","h","?">>
AMP_V == <<"&","v","=">>

\* The alternation of the first pattern, in its written order.
Pattern1Alts == <<WATCH_V, YOUTU_BE, EMBED>>

\* The literal lit occurs in s starting at position i.
LitAt(s, lit, i) ==
    /\ i >= 1
    /\ i + Len(lit) - 1 <= Len(s)
    /\ \A k \in 1..Len(lit) : s[i + k - 1] = lit[k]

\* ([a-zA-Z0-9_-]{11}) matches in s starting at position i.
IdAt(s, i) ==
    /\ i >= 1
    /\ i + IdLen - 1 <= Len(s)
    /\ \A k \in 0..(IdLen - 1) : s[i + k] \in IdChars

Group1(s, i) == SubSeq(s, i, i + IdLen - 1)

\* The regex `.` : any character except a newline.
Dot(c) == c # "\n"

\* The first pattern anchored at position i: the alternatives are tried in order.
RECURSIVE TryAlts(_, _, _)
TryAlts(s, i, a) ==
    IF a > Len(Pattern1Alts) THEN None
    ELSE IF LitAt(s, Pattern1Alts[a], i) /\ IdAt(s, i + Len(Pattern1Alts[a]))
         THEN Some(Group1(s, i + Len(Pattern1Alts[a])))
         ELSE TryAlts(s, i, a + 1)

\* re.search with the first pattern: the leftmost start position that matches.
RECURSIVE Search1(_, _)
Search1(s, i) ==
    IF i > Len(s) THEN None
    ELSE LET m == TryAlts(s, i, 1) IN IF m.some THEN m ELSE Search1(s, i + 1)

\* The lazy `.*?` of the second pattern, having consumed s up to j - 1: try the
\* rest of the pattern at j, else consume one more non-newline character.
RECURSIVE Lazy2(_, _)
Lazy2(s, j) ==
    IF LitAt(s, AMP_V, j) /\ IdAt(s, j + Len(AMP_V))
    THEN Some(Group1(s, j + Len(AMP_V)))
    ELSE IF j <= Len(s) /\ Dot(s[j]) THEN Lazy2(s, j + 1) ELSE None

\* The second pattern anchored at position i.
Match2At(s, i) ==
    IF LitAt(s, WATCH_Q, i) THEN Lazy2(s, i + Len(WATCH_Q)) ELSE None

\* re.search with the second pattern.
RECURSIVE Search2(_, _)
Search2(s, i) ==
    IF i > Len(s) THEN None
    ELSE LET m == Match2At(s, i) IN IF m.some THEN m ELSE Search2(s, i + 1)

\* A variant that tries the patterns in the opposite order.
extract_video_id_swapped(u) ==
    LET m2 == Search2(u, 1) IN
    IF m2.some THEN m2
    ELSE LET m1 == Search1(u, 1) IN IF m1.some THEN m1 ELSE None

\* for pattern in patterns: match = re.search(pattern, url); if match: return match.group(1)
extract_video_id(u) ==
    LET m1 == Search1(u, 1) IN
    IF m1.some THEN m1
    ELSE LET m2 == Search2(u, 1) IN IF m2.some THEN m2 ELSE None

-----------------------------------------------------------------------------
(* Inputs of extract_video_id: every concatenation of at most MaxUrlPieces  *)
(* of these pieces.                                                         *)

P_V_ID == <<"v","=","a","b","c","1","2","3","4","5","6","7","8">>
P_AMPV_ID == <<"&","v","=","X","_","y","-","Z","0","X","_","y","-","Z","0","9">>
P_ID == <<"a","b","c","1","2","3","4","5","6","7","8">>
P_SHORT == <<"X","_","y","-","Z">>
P_PARAM == <<"t","=","1","s">>
P_NL == <<"\n">>

UrlPieces == {WATCH_Q, P_V_ID, P_AMPV_ID, YOUTU_BE, EMBED, P_ID, P_SHORT, P_PARAM, P_NL}

UrlInputs == {Concat(ps) : ps \in SeqsUpTo(UrlPieces, MaxUrlPieces)}

\* The URLs the whole pipeline is run on.
URL_WATCH == <<"h","t","t","p","s",":","/","/","w","w","w",".","y","o","u","t","u","b","e",".","c","o","m","/","w","a","t","c","h","?","v","=","a","b","c","1","2","3","4","5","6","7","8">>
URL_SHORT == <<"h","t","t","p","s",":","/","/","y","o","u","t","u",".","b","e","/","X","_","y","-","Z","0","X","_","y","-","Z","?","t","=","1","s">>
URL_BAD == <<"h","t","t","p","s",":","/","/","e","x","a","m","p","l","e",".","c","o","m","/","w","a","t","c","h">>

PipelineUrls == {URL_WATCH, URL_SHORT, URL_BAD}

-----------------------------------------------------------------------------
(* str.split, str.replace and str.strip, as save_to_file uses them. *)

SUMMARY_MARK == <<"S","U","M","M","A","R","Y",":">>
NOTES_MARK == <<"N","O","T","E","S",":">>

\* What str.strip() removes (the ASCII part of Python's whitespace).
Whitespace == {" ", "\t", "\n", "\r", "\f"}

\* The position of the first occurrence of sep in s at or after i, or 0.
RECURSIVE Find(_, _, _)
Find(s, sep, i) ==
    IF i + Len(sep) - 1 > Len(s) THEN 0
    ELSE IF LitAt(s, sep, i) THEN i ELSE Find(s, sep, i + 1)

\* s.split(sep): the occurrences are taken left to right, without overlap.
RECURSIVE Split(_, _)
Split(s, sep) ==
    LET i == Find(s, sep, 1) IN
    IF i = 0 THEN <<s>>
    ELSE <<SubSeq(s, 1, i - 1)>> \o Split(SubSeq(s, i + Len(sep), Len(s)), sep)

\* s.replace(old, ""): every occurrence is removed, left to right, without overlap.
RECURSIVE Remove(_, _)
Remove(s, old) ==
    LET i == Find(s, old, 1) IN
    IF i = 0 THEN s
    ELSE SubSeq(s, 1, i - 1) \o Remove(SubSeq(s, i + Len(old), Len(s)), old)

RECURSIVE LStrip(_)
LStrip(s) == IF s # <<>> /\ Head(s) \in Whitespace THEN LStrip(Tail(s)) ELSE s

RECURSIVE RStrip(_)
RStrip(s) ==
    IF s # <<>> /\ s[Len(s)] \in Whitespace THEN RStrip(SubSeq(s, 1, Len(s) - 1)) ELSE s

Strip(s) == RStrip(LStrip(s))

\* notes = parts[0].replace("NOTES:", "").strip()
NotesOf(part) == Strip(Remove(part, NOTES_MARK))

\* summary = parts[1].strip()
SummaryOf(part) == Strip(part)

FULL_TXT == <<"_","f","u","l","l",".","t","x","t">>
NOTES_TXT == <<"_","n","o","t","e","s",".","t","x","t">>
SUMMARY_TXT == <<"_","s","u","m","m","a","r","y",".","t","x","t">>
TRANSCRIPT_TXT == <<"_","t","r","a","n","s","c","r","i","p","t",".","t","x","t">>
VIDEO_PREFIX == <<"v","i","d","e","o","_">>
VIDEO_NOTES == <<"v","i","d","e","o","_","n","o","t","e","s">>

FullFile(stem) == stem \o FULL_TXT
NotesFile(stem) == stem \o NOTES_TXT
SummaryFile(stem) == stem \o SUMMARY_TXT
TranscriptFile(id) == VIDEO_PREFIX \o id \o TRANSCRIPT_TXT
Stem(id) == VIDEO_PREFIX \o id

\* Inputs of save_to_file: every concatenation of at most MaxContentPieces of
\* these pieces.
ContentPieces == {NOTES_MARK, SUMMARY_MARK, <<" ">>, <<"a">>, <<"\n">>, <<"b">>}

SaveInputs == {Concat(ps) : ps \in SeqsUpTo(ContentPieces, MaxContentPieces)}

SaveStems == {VIDEO_NOTES, Stem(P_ID)}

-----------------------------------------------------------------------------
(* What the collaborators may answer. *)

Languages == {"en", "de"}

\* A caption track as list_transcripts enumerates it.
Tracks == [language_code : Languages, is_generated : BOOLEAN]

TrackLists == SeqsUpTo(Tracks, MaxTracks)

\* The caption lines a fetch may return.
LineLists == { <<>>, << <<>> >>, << <<"h","i">> >>, << <<"h","i">>, <<"y","o">> >> }

\* The texts a translation call may return.
TranslatedTexts == { <<>>, <<"h","e","y">> }

\* The texts a notes-generation call may return.
GeneratedTexts ==
    { <<>>,
      <<"a","b">>,
      NOTES_MARK \o <<"\n","a","\n">> \o SUMMARY_MARK \o <<" ","b">>,
      NOTES_MARK \o <<"a">> \o NOTES_MARK \o SUMMARY_MARK \o <<"b">>,
      SUMMARY_MARK \o <<"a">> \o SUMMARY_MARK }

\* TextFormatter.format_transcript: the lines joined by newlines.
RECURSIVE format_transcript(_)
format_transcript(lines) ==
    IF lines = <<>> THEN <<>>
    ELSE IF Len(lines) = 1 THEN lines[1]
    ELSE lines[1] \o <<"\n">> \o format_transcript(Tail(lines))

NoFiles == [n \in {} |-> <<>>]
Write(fs, name, data) == (name :> data) @@ fs

NoLocalLanguage == "<unbound>"

-----------------------------------------------------------------------------
(* The state before process_youtube_video(url) starts. *)

InitWith(u) ==
    /\ pc = "start"
    /\ url = u
    /\ video_id = None
    /\ transcript = None
    /\ language = NoLanguage
    /\ notes_content = None
    /\ track_list = <<>>
    /\ transcript_list = Unbound
    /\ detected_language = NoLocalLanguage
    /\ text_transcript = <<>>
    /\ content = <<>>
    /\ filename = <<>>
    /\ parts = <<>>
    /\ files = NoFiles
    /\ trace = <<>>
    /\ fetched = <<>>

Init == \E u \in PipelineUrls : InitWith(u)

Say(evs) == trace' = trace \o evs

\* A frame of get_transcript is gone once it returns.
DropLocals ==
    /\ track_list' = <<>>
    /\ transcript_list' = Unbound
    /\ detected_language' = NoLocalLanguage
    /\ text_transcript' = <<>>

-----------------------------------------------------------------------------
(* process_youtube_video, first step: the URL is parsed. *)

ParseURL ==
    /\ pc = "start"
    /\ video_id' = extract_video_id(url)
    /\ IF ~Truthy(video_id')
       THEN /\ Say(<<Event("print:invalid_url", <<>>)>>)
            /\ pc' = "done"
       ELSE /\ Say(<<Event("print:processing", video_id'.v)>>)
            /\ pc' = "gt_fetch_en"
    /\ UNCHANGED <<url, transcript, language, notes_content, track_list, transcript_list,
                   detected_language, text_transcript, content, filename, parts, files,
                   fetched>>

-----------------------------------------------------------------------------
(* get_transcript *)

\* YouTubeTranscriptApi.get_transcript(video_id, languages=['en'])
GT_FetchEnglish ==
    /\ pc = "gt_fetch_en"
    /\ \/ \E lines \in LineLists :
            /\ Say(<<Event("call:fetch_en", video_id.v), Event("ret:fetch_en", <<"en">>)>>)
            /\ transcript_list' = Bound(lines)
            /\ detected_language' = "en"
            /\ pc' = "gt_format"
       \/ /\ Say(<<Event("call:fetch_en", video_id.v), Event("exc:fetch_en", <<>>)>>)
          /\ pc' = "gt_list"
          /\ UNCHANGED <<transcript_list, detected_language>>
    /\ UNCHANGED <<url, video_id, transcript, language, notes_content, track_list,
                   text_transcript, content, filename, parts, files, fetched>>

\* YouTubeTranscriptApi.list_transcripts(video_id)
GT_ListTranscripts ==
    /\ pc = "gt_list"
    /\ \/ \E ts \in TrackLists :
            /\ Say(<<Event("call:list", video_id.v),
                     Event(IF ts = <<>> THEN "ret:list:empty" ELSE "ret:list", <<>>)>>)
            /\ track_list' = ts
            /\ pc' = "gt_select"
       \/ /\ Say(<<Event("call:list", video_id.v), Event("exc:list", <<>>)>>)
          /\ pc' = "gt_except"
          /\ UNCHANGED track_list
    /\ UNCHANGED <<url, video_id, transcript, language, notes_content, transcript_list,
                   detected_language, text_transcript, content, filename, parts, files,
                   fetched>>

\* for t in transcript: if t.is_generated == gen: ... break
RECURSIVE FirstWhere(_, _, _)
FirstWhere(ts, i, gen) ==
    IF i > Len(ts) THEN 0
    ELSE IF ts[i].is_generated = gen THEN i ELSE FirstWhere(ts, i + 1, gen)

\* A variant that takes the first track whatever its kind.
SelectIndex_first(ts) == IF ts = <<>> THEN 0 ELSE 1

\* The track the two loops reach: the first manual one, else the first generated
\* one, else none (0).
SelectIndex(ts) ==
    IF FirstWhere(ts, 1, FALSE) # 0 THEN FirstWhere(ts, 1, FALSE)
    ELSE FirstWhere(ts, 1, TRUE)

GT_SelectTrack ==
    /\ pc = "gt_select"
    /\ IF SelectIndex(track_list) = 0
       THEN /\ pc' = "gt_format"
            /\ UNCHANGED <<transcript_list, detected_language, trace, fetched>>
       ELSE /\ fetched' = Append(fetched, SelectIndex(track_list))
            /\ \/ \E lines \in LineLists :
                    /\ Say(<<Event("call:fetch", <<>>),
                             Event("ret:fetch",
                                   <<track_list[SelectIndex(track_list)].language_code>>)>>)
                    /\ transcript_list' = Bound(lines)
                    /\ detected_language' = track_list[SelectIndex(track_list)].language_code
                    /\ pc' = "gt_format"
               \/ /\ Say(<<Event("call:fetch", <<>>), Event("exc:fetch", <<>>)>>)
                  /\ pc' = "gt_except"
                  /\ UNCHANGED <<transcript_list, detected_language>>
    /\ UNCHANGED <<url, video_id, transcript, language, notes_content, track_list,
                   text_transcript, content, filename, parts, files>>

\* A variant that sends every transcript to translation.
GT_Format_always ==
    /\ pc = "gt_format"
    /\ IF ~transcript_list.bound
       THEN /\ pc' = "gt_except"
            /\ UNCHANGED text_transcript
       ELSE /\ text_transcript' = format_transcript(transcript_list.v)
            /\ pc' = "gt_translate"
    /\ UNCHANGED <<url, video_id, transcript, language, notes_content, track_list,
                   transcript_list, detected_language, content, filename, parts, files,
                   trace, fetched>>

\* formatter.format_transcript(transcript_list); reading the unassigned local raises
GT_Format ==
    /\ pc = "gt_format"
    /\ IF ~transcript_list.bound
       THEN /\ pc' = "gt_except"
            /\ UNCHANGED text_transcript
       ELSE /\ text_transcript' = format_transcript(transcript_list.v)
            /\ pc' = IF detected_language # "en" THEN "gt_translate" ELSE "gt_return"
    /\ UNCHANGED <<url, video_id, transcript, language, notes_content, track_list,
                   transcript_list, detected_language, content, filename, parts, files,
                   trace, fetched>>

\* A variant that drops the translation and keeps the fetched text.
GT_Translate_keep ==
    /\ pc = "gt_translate"
    /\ \/ \E t \in TranslatedTexts :
            /\ Say(<<Event("print:translating", <<>>),
                     Event("call:translate", text_transcript),
                     Event("ret:translate", t)>>)
            /\ pc' = "gt_return"
       \/ /\ Say(<<Event("print:translating", <<>>),
                   Event("call:translate", text_transcript),
                   Event("exc:translate", <<>>)>>)
          /\ pc' = "gt_except"
    /\ UNCHANGED <<url, video_id, transcript, language, notes_content, track_list,
                   transcript_list, detected_language, text_transcript, content, filename,
                   parts, files, fetched>>

\* model.generate_content(translation_prompt); response.text
GT_Translate ==
    /\ pc = "gt_translate"
    /\ \/ \E t \in TranslatedTexts :
            /\ Say(<<Event("print:translating", <<>>),
                     Event("call:translate", text_transcript),
                     Event("ret:translate", t)>>)
            /\ text_transcript' = t
            /\ pc' = "gt_return"
       \/ /\ Say(<<Event("print:translating", <<>>),
                   Event("call:translate", text_transcript),
                   Event("exc:translate", <<>>)>>)
          /\ pc' = "gt_except"
          /\ UNCHANGED text_transcript
    /\ UNCHANGED <<url, video_id, transcript, language, notes_content, track_list,
                   transcript_list, detected_language, content, filename, parts, files,
                   fetched>>

\* return text_transcript, detected_language
GT_Return ==
    /\ pc = "gt_return"
    /\ transcript' = Some(text_transcript)
    /\ language' = detected_language
    /\ DropLocals
    /\ pc' = "check_transcript"
    /\ UNCHANGED <<url, video_id, notes_content, content, filename, parts, files, trace,
                   fetched>>

\* except Exception as e: print(...); return None, None
GT_Except ==
    /\ pc = "gt_except"
    /\ Say(<<Event("print:error_getting_transcript", <<>>)>>)
    /\ transcript' = None
    /\ language' = NoLanguage
    /\ DropLocals
    /\ pc' = "check_transcript"
    /\ UNCHANGED <<url, video_id, notes_content, content, filename, parts, files, fetched>>

-----------------------------------------------------------------------------
(* process_youtube_video, after get_transcript has returned. *)

\* A variant that never checks what get_transcript returned.
CheckTranscript_unchecked ==
    /\ pc = "check_transcript"
    /\ pc' = "write_transcript"
    /\ UNCHANGED <<url, video_id, transcript, language, notes_content, track_list,
                   transcript_list, detected_language, text_transcript, content, filename,
                   parts, files, trace, fetched>>

\* A variant that tests `transcript is None` instead of `not transcript`.
CheckTranscript_isnone ==
    /\ pc = "check_transcript"
    /\ IF ~transcript.some
       THEN /\ Say(<<Event("print:no_transcript", <<>>)>>)
            /\ pc' = "done"
       ELSE /\ pc' = "write_transcript"
            /\ UNCHANGED trace
    /\ UNCHANGED <<url, video_id, transcript, language, notes_content, track_list,
                   transcript_list, detected_language, text_transcript, content, filename,
                   parts, files, fetched>>

\* if not transcript: print(...); return
CheckTranscript ==
    /\ pc = "check_transcript"
    /\ IF ~Truthy(transcript)
       THEN /\ Say(<<Event("print:no_transcript", <<>>)>>)
            /\ pc' = "done"
       ELSE /\ pc' = "write_transcript"
            /\ UNCHANGED trace
    /\ UNCHANGED <<url, video_id, transcript, language, notes_content, track_list,
                   transcript_list, detected_language, text_transcript, content, filename,
                   parts, files, fetched>>

\* with open(f"video_{video_id}_transcript.txt", "w") as f: f.write(transcript)
\* No handler encloses it: a failing open leaves process_youtube_video as an exception.
WriteTranscript ==
    /\ pc = "write_transcript"
    /\ \/ /\ files' = Write(files, TranscriptFile(video_id.v), transcript.v)
          /\ Say(<<Event("write", TranscriptFile(video_id.v))>>)
          /\ pc' = "generate"
       \/ /\ Say(<<Event("exc:open", TranscriptFile(video_id.v))>>)
          /\ pc' = "raised"
          /\ UNCHANGED files
    /\ UNCHANGED <<url, video_id, transcript, language, notes_content, track_list,
                   transcript_list, detected_language, text_transcript, content, filename,
                   parts, fetched>>

\* generate_notes_with_gemini(transcript): one call, None when it raises
GenerateNotes ==
    /\ pc = "generate"
    /\ \/ \E t \in GeneratedTexts :
            /\ notes_content' = Some(t)
            /\ Say(<<Event("print:generating", <<>>),
                     Event("call:generate", transcript.v),
                     Event("ret:generate", t)>>)
       \/ /\ notes_content' = None
          /\ Say(<<Event("print:generating", <<>>),
                   Event("call:generate", transcript.v),
                   Event("exc:generate", <<>>),
                   Event("print:error_generating_notes", <<>>)>>)
    /\ pc' = "check_notes"
    /\ UNCHANGED <<url, video_id, transcript, language, track_list, transcript_list,
                   detected_language, text_transcript, content, filename, parts, files,
                   fetched>>

\* if not notes_content: print(...); return -- else save_to_file(notes_content, f"video_{video_id}")
CheckNotes ==
    /\ pc = "check_notes"
    /\ IF ~Truthy(notes_content)
       THEN /\ Say(<<Event("print:no_notes", <<>>)>>)
            /\ pc' = "done"
            /\ UNCHANGED <<content, filename>>
       ELSE /\ content' = notes_content.v
            /\ filename' = Stem(video_id.v)
            /\ pc' = "save_full"
            /\ UNCHANGED trace
    /\ UNCHANGED <<url, video_id, transcript, language, notes_content, track_list,
                   transcript_list, detected_language, text_transcript, parts, files,
                   fetched>>

\* print("Processing complete!")
Complete ==
    /\ pc = "save_ret"
    /\ Say(<<Event("print:complete", <<>>)>>)
    /\ pc' = "done"
    /\ UNCHANGED <<url, video_id, transcript, language, notes_content, track_list,
                   transcript_list, detected_language, text_transcript, content, filename,
                   parts, files, fetched>>

-----------------------------------------------------------------------------
(* save_to_file(content, filename).  A failing open raises before the file   *)
(* is touched; the handler of save_to_file catches it.                       *)

SaveFrame == <<url, video_id, transcript, language, notes_content, track_list,
               transcript_list, detected_language, text_transcript, content, filename,
               fetched>>

\* A variant that takes any text with a marker as sectioned.
Sectioned_atleast(ps) == Len(ps) >= 2

\* if len(parts) == 2
Sectioned(ps) == Len(ps) = 2

\* with open(f"{filename}_full.txt", "w") as f: f.write(content)
SaveFull ==
    /\ pc = "save_full"
    /\ \/ /\ files' = Write(files, FullFile(filename), content)
          /\ Say(<<Event("write", FullFile(filename))>>)
          /\ pc' = "save_split"
       \/ /\ Say(<<Event("exc:open", FullFile(filename))>>)
          /\ pc' = "save_except"
          /\ UNCHANGED files
    /\ UNCHANGED parts
    /\ UNCHANGED SaveFrame

\* parts = content.split("SUMMARY:"); if len(parts) == 2: ... else: print(...)
SaveSplit ==
    /\ pc = "save_split"
    /\ parts' = Split(content, SUMMARY_MARK)
    /\ IF Sectioned(Split(content, SUMMARY_MARK))
       THEN /\ pc' = "save_notes"
            /\ UNCHANGED trace
       ELSE /\ Say(<<Event("print:full_content_saved", <<>>)>>)
            /\ pc' = "save_ret"
    /\ UNCHANGED files
    /\ UNCHANGED SaveFrame

\* with open(f"{filename}_notes.txt", "w") as f: f.write(notes)
SaveNotes ==
    /\ pc = "save_notes"
    /\ \/ /\ files' = Write(files, NotesFile(filename), NotesOf(parts[1]))
          /\ Say(<<Event("write", NotesFile(filename))>>)
          /\ pc' = "save_summary"
       \/ /\ Say(<<Event("exc:open", NotesFile(filename))>>)
          /\ pc' = "save_except"
          /\ UNCHANGED files
    /\ UNCHANGED parts
    /\ UNCHANGED SaveFrame

\* with open(f"{filename}_summary.txt", "w") as f: f.write(summary); print(...)
SaveSummary ==
    /\ pc = "save_summary"
    /\ \/ /\ files' = Write(files, SummaryFile(filename), SummaryOf(parts[2]))
          /\ Say(<<Event("write", SummaryFile(filename)),
                   Event("print:files_saved", <<>>)>>)
          /\ pc' = "save_ret"
       \/ /\ Say(<<Event("exc:open", SummaryFile(filename))>>)
          /\ pc' = "save_except"
          /\ UNCHANGED files
    /\ UNCHANGED parts
    /\ UNCHANGED SaveFrame

\* except Exception as e: print(f"Error saving files: {e}")
SaveExcept ==
    /\ pc = "save_except"
    /\ Say(<<Event("print:error_saving_files", <<>>)>>)
    /\ pc' = "save_ret"
    /\ UNCHANGED <<files, parts>>
    /\ UNCHANGED SaveFrame

-----------------------------------------------------------------------------
(* The run of process_youtube_video. *)

Next ==
    \/ ParseURL
    \/ GT_FetchEnglish
    \/ GT_ListTranscripts
    \/ GT_SelectTrack
    \/ GT_Format
    \/ GT_Translate
    \/ GT_Return
    \/ GT_Except
    \/ CheckTranscript
    \/ WriteTranscript
    \/ GenerateNotes
    \/ CheckNotes
    \/ SaveFull
    \/ SaveSplit
    \/ SaveNotes
    \/ SaveSummary
    \/ SaveExcept
    \/ Complete

Spec == Init /\ [][Next]_vars

(* extract_video_id on its own, over UrlInputs. *)

InitUrl == \E u \in UrlInputs : InitWith(u)

NextUrl == ParseURL

SpecUrl == InitUrl /\ [][NextUrl]_vars

(* save_to_file on its own, called with a text of SaveInputs. *)

InitSave ==
    /\ pc = "save_full"
    /\ url = <<>>
    /\ video_id = None
    /\ transcript = None
    /\ language = NoLanguage
    /\ notes_content = None
    /\ track_list = <<>>
    /\ transcript_list = Unbound
    /\ detected_language = NoLocalLanguage
    /\ text_transcript = <<>>
    /\ content \in SaveInputs
    /\ filename \in SaveStems
    /\ parts = <<>>
    /\ files = NoFiles
    /\ trace = <<>>
    /\ fetched = <<>>

NextSave ==
    \/ SaveFull
    \/ SaveSplit
    \/ SaveNotes
    \/ SaveSummary
    \/ SaveExcept

SpecSave == InitSave /\ [][NextSave]_vars

-----------------------------------------------------------------------------
(* Reading the trace. *)

Has(e) == \E i \in DOMAIN trace : trace[i].ev = e
Count(e) == Cardinality({i \in DOMAIN trace : trace[i].ev = e})
HasOpenFailure == Has("exc:open")

InGetTranscript ==
    pc \in {"gt_fetch_en", "gt_list", "gt_select", "gt_format", "gt_translate",
            "gt_return", "gt_except"}

\* get_transcript has returned to process_youtube_video.
Returned == pc # "start" /\ ~InGetTranscript /\ Has("call:fetch_en")

GenerativeCalls == {"call:translate", "call:generate"}

-----------------------------------------------------------------------------
Shape1At(u, i) ==
    \E a \in DOMAIN Pattern1Alts :
        LitAt(u, Pattern1Alts[a], i) /\ IdAt(u, i + Len(Pattern1Alts[a]))

Shape1Id(u, i) ==
    LET a == CHOOSE b \in DOMAIN Pattern1Alts :
                 LitAt(u, Pattern1Alts[b], i) /\ IdAt(u, i + Len(Pattern1Alts[b]))
    IN SubSeq(u, i + Len(Pattern1Alts[a]), i + Len(Pattern1Alts[a]) + IdLen - 1)

\* youtube.com/watch? at i, &v= and an identifier at j, no newline in between.
Shape2At(u, i, j) ==
    /\ LitAt(u, WATCH_Q, i)
    /\ j >= i + Len(WATCH_Q)
    /\ \A k \in (i + Len(WATCH_Q))..(j - 1) : u[k] # "\n"
    /\ LitAt(u, AMP_V, j)
    /\ IdAt(u, j + Len(AMP_V))

Shape2Start(u, i) == \E j \in 1..Len(u) : Shape2At(u, i, j)

Leftmost(S) == CHOOSE i \in S : \A k \in S : i <= k

ExpectedId(u) ==
    LET s1 == {i \in 1..Len(u) : Shape1At(u, i)}
        s2 == {i \in 1..Len(u) : Shape2Start(u, i)}
    IN IF s1 # {} THEN Some(Shape1Id(u, Leftmost(s1)))
       ELSE IF s2 # {}
            THEN LET i == Leftmost(s2)
                     j == Leftmost({k \in 1..Len(u) : Shape2At(u, i, k)})
                 IN Some(SubSeq(u, j + Len(AMP_V), j + Len(AMP_V) + IdLen - 1))
            ELSE None

\* C8: extract_video_id returns None or 11 characters of [a-zA-Z0-9_-]; when some
\* position of the URL holds one of the segments youtube.com/watch?v=, youtu.be/,
\* youtube.com/embed/ followed by 11 such characters, the result is the 11
\* characters after the leftmost such segment, whether or not the &v= shape is
\* present too; otherwise, when youtube.com/watch? is followed on the same line
\* by &v= and 11 such characters, the result is those 11 characters (the first
\* such &v= after the leftmost such youtube.com/watch?); otherwise it is None.
C8_ExtractVideoId ==
    pc # "start" =>
        /\ video_id = None
           \/ /\ video_id.some
              /\ Len(video_id.v) = IdLen
              /\ \A k \in 1..IdLen : video_id.v[k] \in IdChars
        /\ video_id = ExpectedId(url)
        /\ pc \in {"done", "gt_fetch_en"}
        /\ (pc = "done") = (video_id = None)

\* Both patterns match and they capture different identifiers.
C8_Witness ==
    /\ pc = "gt_fetch_en"
    /\ \E i \in 1..Len(url) : Shape1At(url, i)
    /\ Search2(url, 1).some
    /\ Search2(url, 1) # video_id

-----------------------------------------------------------------------------
\* C1: once the direct fetch of the English track has succeeded, the run never
\* enumerates the tracks, never fetches another track and never makes a
\* translation call, and get_transcript returns a text with language "en".
C1_EnglishNoTranslation ==
    Has("ret:fetch_en") =>
        /\ ~Has("call:translate")
        /\ ~Has("call:list")
        /\ ~Has("call:fetch")
        /\ InGetTranscript => pc \in {"gt_format", "gt_return"}
        /\ Returned => transcript.some /\ language = "en"

C1_Witness ==
    /\ Has("ret:fetch_en")
    /\ pc = "check_transcript"
    /\ language = "en"

-----------------------------------------------------------------------------
AfterSelect ==
    /\ pc \in {"gt_format", "gt_translate", "gt_return", "gt_except"}
    /\ Has("ret:list")

IsManual(t) == ~t.is_generated

\* C2: after the English fetch failed and a non-empty track list was enumerated,
\* exactly one track has been fetched: the first manual track in enumeration
\* order when the list holds a manual track (also when generated tracks precede
\* it), and the first track of the list (a generated one) only when it holds
\* none; the detected language is that track's language code.
C2_ManualPreferred ==
    /\ InGetTranscript /\ ~AfterSelect => fetched = <<>>
    /\ AfterSelect =>
        /\ Len(fetched) = 1
        /\ fetched[1] \in DOMAIN track_list
        /\ IF \E k \in DOMAIN track_list : IsManual(track_list[k])
           THEN /\ IsManual(track_list[fetched[1]])
                /\ \A k \in 1..(fetched[1] - 1) : ~IsManual(track_list[k])
           ELSE fetched[1] = 1
        /\ Has("ret:fetch") =>
               detected_language = track_list[fetched[1]].language_code

\* A generated track precedes the manual one, and the manual one was fetched.
C2_Witness ==
    /\ AfterSelect
    /\ Len(track_list) >= 2
    /\ track_list[1].is_generated
    /\ IsManual(track_list[2])
    /\ fetched = <<2>>
    /\ Has("ret:fetch")

-----------------------------------------------------------------------------
NoTracks == Has("exc:fetch_en") /\ (Has("exc:list") \/ Has("ret:list:empty"))

SuccessfulFetches == {"ret:fetch_en", "ret:fetch"}

\* C3: when the English fetch failed and the enumeration failed or was empty, no
\* generative call is made, no file is written, no exception leaves the run,
\* get_transcript returns (None, None) and the run ends at the
\* could-not-retrieve-transcript message; and in every run each generative call
\* is preceded by exactly one successful track fetch.
C3_NoTracksNoGenerativeCall ==
    /\ NoTracks =>
        /\ ~Has("call:translate")
        /\ ~Has("call:generate")
        /\ files = NoFiles
        /\ pc \in {"gt_select", "gt_format", "gt_except", "check_transcript", "done"}
        /\ Returned =>
            /\ transcript = None
            /\ language = NoLanguage
            /\ Has("print:error_getting_transcript")
        /\ pc = "done" => trace[Len(trace)].ev = "print:no_transcript"
    /\ \A i \in DOMAIN trace :
           trace[i].ev \in GenerativeCalls =>
               Cardinality({j \in 1..(i - 1) : trace[j].ev \in SuccessfulFetches}) = 1

C3_Witness ==
    /\ Has("exc:fetch_en")
    /\ Has("ret:list:empty")
    /\ pc = "done"

-----------------------------------------------------------------------------
NonEnglishFetched ==
    \E i \in DOMAIN trace : trace[i].ev = "ret:fetch" /\ trace[i].arg # <<"en">>

\* C9: at most one track is fetched and at most one translation call is made in
\* a run, and only for a track whose language is not "en"; after a non-English
\* track was fetched and get_transcript returned, exactly one translation call
\* was made; when it answered, the returned text is its answer and the returned
\* language is the track's code; when it raised, the result is (None, None).
C9_SingleTranslation ==
    /\ Count("call:translate") <= 1
    /\ Count("call:fetch") <= 1
    /\ Len(fetched) <= 1
    /\ Has("call:translate") => NonEnglishFetched
    /\ NonEnglishFetched /\ Returned =>
        /\ Count("call:translate") = 1
        /\ \A i \in DOMAIN trace :
               trace[i].ev = "ret:translate" =>
                   /\ transcript = Some(trace[i].arg)
                   /\ \E j \in DOMAIN trace :
                          trace[j].ev = "ret:fetch" /\ trace[j].arg = <<language>>
        /\ Has("exc:translate") => transcript = None /\ language = NoLanguage
        /\ Has("ret:translate") \/ Has("exc:translate")

C9_Witness ==
    /\ Returned
    /\ Has("ret:translate")
    /\ transcript = Some(<<"h","e","y">>)
    /\ language = "de"

-----------------------------------------------------------------------------
\* C10: the notes generator is never called with an empty transcript and the
\* transcript file never holds an empty text; a run whose get_transcript
\* returned the empty text ends at the could-not-retrieve-transcript message
\* with no file and no generation call; a run whose generator returned the
\* empty text ends at the could-not-generate message, save_to_file not called.
C10_EmptyTextHalts ==
    /\ \A i \in DOMAIN trace : trace[i].ev = "call:generate" => trace[i].arg # <<>>
    /\ video_id.some /\ TranscriptFile(video_id.v) \in DOMAIN files =>
           files[TranscriptFile(video_id.v)] # <<>>
    /\ transcript = Some(<<>>) /\ pc # "check_transcript" =>
        /\ pc = "done"
        /\ files = NoFiles
        /\ ~Has("call:generate")
        /\ trace[Len(trace)].ev = "print:no_transcript"
    /\ notes_content = Some(<<>>) /\ pc # "check_notes" =>
        /\ pc = "done"
        /\ trace[Len(trace)].ev = "print:no_notes"
        /\ content = <<>> /\ filename = <<>>
        /\ DOMAIN files = {TranscriptFile(video_id.v)}

\* A translation call answered with the empty text and the run halted.
C10_Witness ==
    /\ Has("ret:translate")
    /\ transcript = Some(<<>>)
    /\ pc = "done"

-----------------------------------------------------------------------------
SaveFileNames ==
    IF video_id.some
    THEN {FullFile(Stem(video_id.v)), NotesFile(Stem(video_id.v)),
          SummaryFile(Stem(video_id.v))}
    ELSE {}

StepRank(e) ==
    IF e.ev \in {"print:invalid_url", "print:processing"} THEN 1
    ELSE IF e.ev \in {"call:fetch_en", "ret:fetch_en", "exc:fetch_en", "call:list",
                      "ret:list", "ret:list:empty", "exc:list", "call:fetch",
                      "ret:fetch", "exc:fetch", "print:translating", "call:translate",
                      "ret:translate", "exc:translate",
                      "print:error_getting_transcript", "print:no_transcript"} THEN 2
    ELSE IF e.ev \in {"write", "exc:open"} /\ e.arg \notin SaveFileNames THEN 3
    ELSE IF e.ev \in {"print:generating", "call:generate", "ret:generate",
                      "exc:generate", "print:error_generating_notes",
                      "print:no_notes"} THEN 4
    ELSE IF e.ev = "print:complete" THEN 6
    ELSE 5

C6_StepsInOrder ==
    \A i, j \in DOMAIN trace : i < j => StepRank(trace[i]) <= StepRank(trace[j])

C6_HaltsAtFailure ==
    /\ pc # "start" /\ video_id = None =>
           pc = "done" /\ files = NoFiles /\ trace = <<Event("print:invalid_url", <<>>)>>
    /\ Returned /\ ~Truthy(transcript) =>
           /\ files = NoFiles
           /\ ~Has("call:generate")
           /\ pc \in {"check_transcript", "done"}
    /\ Has("call:generate") /\ ~Truthy(notes_content) =>
           /\ DOMAIN files = {TranscriptFile(video_id.v)}
           /\ pc \in {"check_notes", "done"}
    /\ Count("call:generate") <= 1
    /\ Has("print:complete") => Count("call:generate") = 1

FailureEvents ==
    {"print:invalid_url", "exc:list", "exc:fetch", "exc:translate", "exc:generate",
     "exc:open", "print:no_transcript", "print:no_notes"}

C6_CompletionOnlyAfterSuccess ==
    Has("print:complete") => \A i \in DOMAIN trace : trace[i].ev \notin FailureEvents

\* C6 (as claimed): the steps of a run happen in the order parse, acquire,
\* persist transcript, generate, write outputs, report completion; an
\* unparseable URL leads to no call and no file; a failed acquisition to no file
\* and no generation call; a failed generation leaves only the transcript file;
\* the generator is called at most once, and once in a run that reports
\* completion; and completion is reported only when no earlier step failed.
C6_PipelineOrder ==
    /\ C6_StepsInOrder
    /\ C6_HaltsAtFailure
    /\ C6_CompletionOnlyAfterSuccess

-----------------------------------------------------------------------------
C7_OtherFailuresCaught ==
    /\ pc # "start" /\ video_id = None => Has("print:invalid_url") /\ pc = "done"
    /\ Returned /\ (Has("exc:list") \/ Has("exc:fetch") \/ Has("exc:translate")
                    \/ Has("ret:list:empty")) =>
           /\ Has("print:error_getting_transcript")
           /\ transcript = None
           /\ pc \in {"check_transcript", "done"}
    /\ Has("exc:generate") =>
           /\ Has("print:error_generating_notes")
           /\ notes_content = None
           /\ pc \in {"check_notes", "done"}
    /\ (\E i \in DOMAIN trace : trace[i].ev = "exc:open" /\ trace[i].arg \in SaveFileNames) =>
           /\ pc \in {"save_except", "save_ret", "done"}
           /\ pc # "save_except" => Has("print:error_saving_files")

C7_NeverPropagates == pc # "raised"

\* C7 (as claimed): every failure is caught where it occurs, is followed by a
\* printed message and a sentinel return, and no exception leaves
\* process_youtube_video -- a failing write of the transcript file included.
C7_AllFailuresCaught ==
    /\ C7_OtherFailuresCaught
    /\ C7_NeverPropagates

-----------------------------------------------------------------------------
(* save_to_file: what the text holds. *)

MarkerPositions(c) == {i \in 1..Len(c) : LitAt(c, SUMMARY_MARK, i)}
ExactlyOneMarker(c) == Cardinality(MarkerPositions(c)) = 1
BeginsWithLabel(c) == LitAt(c, NOTES_MARK, 1)

BeforeMarker(c) == SubSeq(c, 1, Leftmost(MarkerPositions(c)) - 1)
AfterMarker(c) == SubSeq(c, Leftmost(MarkerPositions(c)) + Len(SUMMARY_MARK), Len(c))

\* The part before the marker without its leading label and surrounding whitespace.
LeadingLabelRemoved(c) ==
    Strip(SubSeq(BeforeMarker(c), Len(NOTES_MARK) + 1, Len(BeforeMarker(c))))

SaveDone == pc = "save_ret" /\ ~HasOpenFailure

\* C4 (as claimed): for a text that begins with the NOTES: label and holds
\* exactly one SUMMARY: marker, the notes file holds the text before the marker
\* with only the leading label and the surrounding whitespace removed, and the
\* summary file holds the text after the marker, stripped.
C4_NotesBodyPreserved ==
    SaveDone /\ ExactlyOneMarker(content) /\ BeginsWithLabel(content) =>
        /\ files[NotesFile(filename)] = LeadingLabelRemoved(content)
        /\ files[SummaryFile(filename)] = Strip(AfterMarker(content))

\* What does hold: the same, for texts whose notes body holds no further label.
C4_SingleLabelPreserved ==
    SaveDone /\ ExactlyOneMarker(content) /\ BeginsWithLabel(content)
        /\ Find(BeforeMarker(content), NOTES_MARK, 2) = 0 =>
        /\ files[NotesFile(filename)] = LeadingLabelRemoved(content)
        /\ files[SummaryFile(filename)] = Strip(AfterMarker(content))

-----------------------------------------------------------------------------
\* C5: once save_to_file has opened the full file, that file holds the whole
\* text unchanged; a notes or summary file exists only for a text with exactly
\* one SUMMARY: marker; and when no open fails, save_to_file ends with the full
\* file alone and the full-content message for zero or several markers, and
\* with all three files for exactly one, without reporting an error.
C5_FullAlwaysSplitOnce ==
    /\ Has("write") =>
           /\ FullFile(filename) \in DOMAIN files
           /\ files[FullFile(filename)] = content
    /\ pc \in {"save_split", "save_notes", "save_summary"} => Has("write")
    /\ (NotesFile(filename) \in DOMAIN files \/ SummaryFile(filename) \in DOMAIN files) =>
           ExactlyOneMarker(content)
    /\ SaveDone =>
           /\ ~Has("print:error_saving_files")
           /\ DOMAIN files =
                  IF ExactlyOneMarker(content)
                  THEN {FullFile(filename), NotesFile(filename), SummaryFile(filename)}
                  ELSE {FullFile(filename)}
           /\ Has("print:full_content_saved") = ~ExactlyOneMarker(content)
           /\ Has("print:files_saved") = ExactlyOneMarker(content)

\* Two markers: only the full file exists.
C5_Witness ==
    /\ SaveDone
    /\ Cardinality(MarkerPositions(content)) >= 2
    /\ DOMAIN files = {FullFile(filename)}
    /\ files[FullFile(filename)] = content

====
